---- MODULE Spec2Model ----
(***************************************************************************)
(* Model of bot.py, the Graphite Quest Discord bot.                        *)
(*                                                                         *)
(* A bot process is one asyncio event loop with one psycopg2 connection    *)
(* (conn) and one cursor shared by every handler (bot.py 25-26).  Handlers *)
(* are coroutines: code between two awaits runs without any other handler  *)
(* of the same process in between, and psycopg2 calls are blocking.  The   *)
(* database is shared by all bot processes; its statements are the atomic  *)
(* steps, so statements of two processes interleave.                       *)
(***************************************************************************)
EXTENDS Integers, Sequences, FiniteSets, TLC

\* ---------------------------------------------------------------- bounds
MaxQuests == 2        \* ids the store hands out under Spec
MaxListQuests == 6    \* ids the store hands out under SpecList
MaxInvocations == 3   \* command invocations delivered in one behaviour of Spec
MaxListInvocations == 8  \* command invocations delivered in one behaviour of SpecList
MaxSameTimestamp == 2 \* rows the store stamps with one created_at
MaxFaults == 1        \* store/provider failures in one behaviour of Spec
MaxSentences == 3     \* sentences of a generated text under SpecSuggest
MaxSuggestInvocations == 2  \* command invocations in one behaviour of SpecSuggest
MaxCreateInvocations == 3   \* command invocations in one behaviour of SpecCreate

\* ------------------------------------------------------ program constants
quests_per_page == 5
MinPoints == 1
MaxPoints == 1000

\* ------------------------------------------------- processes and tasks
Procs == {"bot1", "bot2"}
Tasks == {"a", "b", "c"}
Proc(t) == IF t = "c" THEN "bot2" ELSE "bot1"
NoTask == "none"
\* An invocation is served by the first task of its process that is free.
FirstSlot(u, t) == Proc(u) = Proc(t) /\ u = "a" /\ t = "b"

Users == {"u1", "u2"}
KnownUsers == {"u1"}

VARIABLES
  quests,        \* committed rows of table quests
  quest_claims,  \* committed rows of table quest_claims
  id_seq,        \* last id the store generated for quests
  claim_seq,     \* last id the store generated for quest_claims
  clock,         \* last created_at the store generated
  conn,          \* per process: the connection's transaction state
  running,       \* per process: the task inside a synchronous segment
  pc,            \* per task: position in its handler
  inv,           \* per task: the invocation it serves
  loc,           \* per task: the handler's local variables
  replies,       \* per task: followup messages sent for the invocation
  hist,          \* per task: was the invocation delivered after a failed one completed
  faults,        \* failures the store and the other services still have in them
  invocations    \* invocations delivered so far

vars == <<quests, quest_claims, id_seq, claim_seq, clock, conn, running, pc, inv, loc,
          replies, hist, faults, invocations>>

dbvars == <<quests, quest_claims, id_seq, claim_seq, clock>>

\* ------------------------------------------------------------ invocations
NoId == <<"none", 0>>
Invocation(cmd, user, title, description, points, page, quest_id, theme) ==
  [cmd |-> cmd, user |-> user, title |-> title, description |-> description,
   points |-> points, page |-> page, quest_id |-> quest_id, theme |-> theme]

NoInvocation == Invocation("none", "", "", "", 0, 0, NoId, <<>>)

CreateInputs(users, titles, descriptions, points) ==
  { Invocation("create", u, ti, d, p, 0, NoId, <<>>) :
      u \in users, ti \in titles, d \in descriptions, p \in points }

ListInputs(users, pages) ==
  { Invocation("list", u, "", "", 0, p, NoId, <<>>) : u \in users, p \in pages }

ClaimInputs(users, ids) ==
  { Invocation("claim", u, "", "", 0, 0, q, <<>>) : u \in users, q \in ids }

SuggestInputs(users, themes) ==
  { Invocation("suggest", u, "", "", 0, 0, NoId, th) : u \in users, th \in themes }

\* Text is a sequence of characters.
Fantasy == <<"f", "a", "n", "t", "a", "s", "y">>

\* A quest id as the user types it: text that is a well-formed id, or is not.
JunkId == <<"junk", 0>>
IdTexts(n) == { <<"uuid", k>> : k \in 1..n } \cup {JunkId}

Inputs ==
  CreateInputs({"u1"}, {"Gem"}, {"Cave"}, {0, 1000, 1001})
    \cup ListInputs({"u1"}, {0, 1})
    \cup ClaimInputs(Users, IdTexts(MaxQuests) \ {JunkId})
    \cup ClaimInputs({"u2"}, {JunkId})
    \cup SuggestInputs({"u1"}, {Fantasy})

\* The second bot process is sent the commands that get as far as writing to the
\* store: creates with valid points and claims of quest ids by a second user.
InputsOf(p) ==
  IF p = "bot1" THEN Inputs
  ELSE {i \in Inputs : \/ i.cmd = "create" /\ i.points \in MinPoints..MaxPoints
                       \/ i.cmd = "claim" /\ i.user = "u2" /\ i.quest_id # JunkId}

\* ----------------------------------------------------------------- replies
Reply(kind) ==
  [kind |-> kind, cause |-> "", id |-> 0, page |-> 0, pages |-> 0,
   items |-> <<>>, names |-> <<>>, next |-> 0, title |-> <<>>, description |-> <<>>]

ErrorReply(kind, cause) == [Reply(kind) EXCEPT !.cause = cause]

\* claim_id is the id the store gave the row the invocation inserted; the handler
\* never reads it.  calls counts the statements, commits and rollbacks issued on
\* the connection, posts the requests sent to the generation service.
NoLocals ==
  [quest_id |-> 0, creator_id |-> "", total_quests |-> 0, claim_id |-> 0, calls |-> 0,
   posts |-> 0, api_token |-> "", generated_text |-> <<>>]

\* ------------------------------------------------------------------ store
Ready == [aborted |-> FALSE, quests |-> {}, claims |-> {}]

QuestRow(id, title, description, creator_id, points, created_at) ==
  [id |-> id, title |-> title, description |-> description,
   creator_id |-> creator_id, points |-> points, created_at |-> created_at]

\* What a statement on connection p reads: committed rows and its own writes.
VisibleQuests(p) == quests \cup conn[p].quests
VisibleClaims(p) == quest_claims \cup conn[p].claims

\* created_at is generated by the store; rows may get the same timestamp.
AllQuests == quests \cup UNION {conn[p].quests : p \in Procs}
Timestamps ==
  {clock + 1} \cup
    (IF clock > 0 /\ Cardinality({q \in AllQuests : q.created_at = clock}) < MaxSameTimestamp
     THEN {clock} ELSE {})

\* UNIQUE(quest_id, user_id) of quest_claims.
ClaimRow(id, quest_id, user_id) == [id |-> id, quest_id |-> quest_id, user_id |-> user_id]

ClaimsOf(rows, qid, user) == {c \in rows : c.quest_id = qid /\ c.user_id = user}

\* The table without its uniqueness constraint.
NoUniqueConstraint(p, qid, user) == FALSE

UniqueViolation(p, qid, user) == ClaimsOf(VisibleClaims(p), qid, user) # {}

\* An INSERT whose key another connection has inserted and not yet committed
\* waits for that transaction to end.
WaitsForLock(p, qid, user) ==
  \E o \in Procs \ {p} : ClaimsOf(conn[o].claims, qid, user) # {}

\* The id column is not text: text that is no id makes the statement fail.
WellFormedId(text) == text[1] = "uuid"

\* A statement fails: the transaction is already aborted (every statement then
\* raises until a rollback), or the store fails now, which aborts the transaction.
Raises(p, cause) ==
  \/ /\ conn[p].aborted
     /\ cause = "InFailedSqlTransaction"
     /\ UNCHANGED <<conn, faults>>
  \/ /\ ~conn[p].aborted
     /\ faults > 0
     /\ cause = "OperationalError"
     /\ conn' = [conn EXCEPT ![p].aborted = TRUE]
     /\ faults' = faults - 1

StatementErrors == {"InFailedSqlTransaction", "OperationalError"}

\* A commit that puts the connection's rows in the place of the stored ones.
CommitReplacing(p) ==
  /\ quests' = conn[p].quests
  /\ quest_claims' = conn[p].claims
  /\ conn' = [conn EXCEPT ![p] = Ready]

\* conn.commit(): the connection's writes become visible to everyone.
Commit(p) ==
  /\ quests' = IF conn[p].aborted THEN quests ELSE quests \cup conn[p].quests
  /\ quest_claims' =
       IF conn[p].aborted THEN quest_claims ELSE quest_claims \cup conn[p].claims
  /\ conn' = [conn EXCEPT ![p] = Ready]

\* conn.commit() fails: the store discards the transaction.
CommitFails(p) ==
  /\ faults > 0
  /\ faults' = faults - 1
  /\ conn' = [conn EXCEPT ![p] = Ready]

\* The INSERT on a connection in autocommit mode: visible at once.
InsertQuestAutocommit(p, row) ==
  /\ quests' = quests \cup {row}
  /\ UNCHANGED conn

\* cursor.execute(INSERT ...): the row is written inside the open transaction.
InsertQuest(p, row) ==
  /\ conn' = [conn EXCEPT ![p].quests = @ \cup {row}]
  /\ UNCHANGED quests

InsertClaim(p, row) ==
  /\ conn' = [conn EXCEPT ![p].claims = @ \cup {row}]
  /\ UNCHANGED quest_claims

\* conn.rollback()
Rollback(p) == conn' = [conn EXCEPT ![p] = Ready]

\* ------------------------------------------------------------ task helpers
Quiet(t) == pc[t] \in {"idle", "done"}

\* A followup that is sent a second time.
SendTwice(t, r) == replies' = [replies EXCEPT ![t] = Append(Append(@, r), r)]

Send(t, r) == replies' = [replies EXCEPT ![t] = Append(@, r)]

Goto(t, label) == pc' = [pc EXCEPT ![t] = label]

Called(t, n) == [loc EXCEPT ![t].calls = @ + n]

\* A handler that awaits between two statements: others may be resumed.
AcquireNothing(t) == UNCHANGED running

Acquire(t) == running' = [running EXCEPT ![Proc(t)] = t]
Release(t) == running' = [running EXCEPT ![Proc(t)] = NoTask]

\* ------------------------------------------------------------------- Init
Start(failures) ==
  /\ quests = {}
  /\ quest_claims = {}
  /\ id_seq = 0
  /\ claim_seq = 0
  /\ clock = 0
  /\ conn = [p \in Procs |-> Ready]
  /\ running = [p \in Procs |-> NoTask]
  /\ pc = [t \in Tasks |-> "idle"]
  /\ inv = [t \in Tasks |-> NoInvocation]
  /\ loc = [t \in Tasks |-> NoLocals]
  /\ replies = [t \in Tasks |-> <<>>]
  /\ hist = [t \in Tasks |-> FALSE]
  /\ faults = failures
  /\ invocations = 0

Init == Start(MaxFaults)

\* The gateway delivers an invocation; the handler defers the response and is
\* suspended until the event loop resumes it.
Invoke(t, i, cap, limit) ==
  /\ Quiet(t)
  /\ \A u \in Tasks : FirstSlot(u, t) => ~Quiet(u)
  /\ invocations < limit
  /\ i.cmd = "create" =>
       id_seq + Cardinality({u \in Tasks : inv[u].cmd = "create" /\ pc[u] = "begin"}) < cap
  /\ invocations' = invocations + 1
  /\ inv' = [inv EXCEPT ![t] = i]
  /\ loc' = [loc EXCEPT ![t] = NoLocals]
  /\ replies' = [replies EXCEPT ![t] = <<>>]
  /\ hist' = [hist EXCEPT ![t] =
       conn[Proc(t)].aborted /\ \A u \in Tasks \ {t} : Proc(u) = Proc(t) => Quiet(u)]
  /\ Goto(t, "begin")
  /\ UNCHANGED <<dbvars, conn, running, faults>>

\* ----------------------------------------------------------- quest_create
\* The range check without its upper limit.
PointsValidNoUpper(points) == ~(points < MinPoints)

PointsValid(points) == ~(points < MinPoints \/ points > MaxPoints)

\* Lines 56-69: validate, then INSERT ... RETURNING id.
quest_create(t) ==
  LET p == Proc(t)
      i == inv[t]
  IN
  /\ pc[t] = "begin" /\ i.cmd = "create" /\ running[p] = NoTask
  /\ UNCHANGED <<inv, hist, invocations, quest_claims, claim_seq>>
  /\ \/ /\ ~PointsValid(i.points)
        /\ Send(t, Reply("points_range"))
        /\ Goto(t, "done")
        /\ UNCHANGED <<quests, id_seq, clock, conn, running, loc, faults>>
     \/ /\ PointsValid(i.points)
        /\ \E cause \in StatementErrors : 
             /\ Raises(p, cause)
             /\ Send(t, ErrorReply("create_error", cause))
        /\ Goto(t, "create_except")
        /\ loc' = Called(t, 1)
        /\ UNCHANGED <<quests, id_seq, clock, running>>
     \/ /\ PointsValid(i.points)
        /\ ~conn[p].aborted
        /\ \E ts \in Timestamps :
             /\ clock' = ts
             /\ InsertQuest(p,
                  QuestRow(id_seq + 1, i.title, i.description, i.user, i.points, ts))
        /\ id_seq' = id_seq + 1
        /\ loc' = [Called(t, 1) EXCEPT ![t].quest_id = id_seq + 1]
        /\ Acquire(t)
        /\ Goto(t, "create_commit")
        /\ UNCHANGED <<replies, faults>>

\* Lines 70-76: conn.commit(), then the success message.
quest_create_commit(t) ==
  LET p == Proc(t) IN
  /\ pc[t] = "create_commit"
  /\ UNCHANGED <<inv, hist, invocations, id_seq, claim_seq, clock>>
  /\ loc' = Called(t, 1)
  /\ Release(t)
  /\ \/ /\ Commit(p)
        /\ Send(t, [Reply("created") EXCEPT !.id = loc[t].quest_id])
        /\ Goto(t, "done")
        /\ UNCHANGED faults
     \/ /\ CommitFails(p)
        /\ Send(t, ErrorReply("create_error", "OperationalError"))
        /\ Goto(t, "create_except")
        /\ UNCHANGED <<quests, quest_claims>>

\* Lines 80-82: resumed after the error message was sent: conn.rollback().
quest_create_except(t) ==
  /\ pc[t] = "create_except" /\ running[Proc(t)] = NoTask
  /\ Rollback(Proc(t))
  /\ loc' = Called(t, 1)
  /\ Goto(t, "done")
  /\ UNCHANGED <<dbvars, running, inv, replies, hist, faults, invocations>>

\* ------------------------------------------------------------- quest_list
Min(a, b) == IF a < b THEN a ELSE b

\* ORDER BY created_at DESC: every order of the rows in which created_at never
\* increases; rows with equal created_at come in whatever order the store picks.
RECURSIVE OrderByCreatedAtDesc(_)
OrderByCreatedAtDesc(rows) ==
  IF rows = {} THEN {<<>>}
  ELSE UNION { { <<r>> \o rest : rest \in OrderByCreatedAtDesc(rows \ {r}) } :
               r \in {x \in rows : \A y \in rows : x.created_at >= y.created_at} }

\* LIMIT n OFFSET k
LimitOffset(order, n, k) == SubSeq(order, k + 1, Min(Len(order), k + n))

\* The page count rounded down.
TotalPagesFloor(total_quests) == total_quests \div quests_per_page

TotalPages(total_quests) == (total_quests + quests_per_page - 1) \div quests_per_page

\* client.fetch_user(...).display_name, or the fallback of discord.NotFound.
CreatorName(creator_id) ==
  IF creator_id \in KnownUsers THEN <<"display_name", creator_id>>
  ELSE <<"User ID (not found)", creator_id>>

\* The page suggested by the pagination line, 0 when the line is not added.
NextPageHint(page, total_pages) ==
  IF total_pages > 1 THEN (IF page < total_pages THEN page + 1 ELSE 1) ELSE 0

\* Lines 94-112: validate the page, SELECT COUNT(*), check the page exists.
quest_list(t) ==
  LET p == Proc(t)
      i == inv[t]
      total_quests == Cardinality(VisibleQuests(p))
      total_pages == TotalPages(total_quests)
  IN
  /\ pc[t] = "begin" /\ i.cmd = "list" /\ running[p] = NoTask
  /\ UNCHANGED <<dbvars, inv, hist, invocations>>
  /\ \/ /\ i.page < 1
        /\ Send(t, Reply("page_invalid"))
        /\ Goto(t, "done")
        /\ UNCHANGED <<conn, running, loc, faults>>
     \/ /\ ~(i.page < 1)
        /\ \E cause \in StatementErrors :
             /\ Raises(p, cause)
             /\ Send(t, ErrorReply("list_error", cause))
        /\ Goto(t, "done")
        /\ loc' = Called(t, 1)
        /\ UNCHANGED running
     \/ /\ ~(i.page < 1)
        /\ ~conn[p].aborted
        /\ i.page > total_pages /\ total_quests > 0
        /\ Send(t, [Reply("page_out_of_range") EXCEPT !.page = i.page, !.pages = total_pages])
        /\ Goto(t, "done")
        /\ loc' = [Called(t, 1) EXCEPT ![t].total_quests = total_quests]
        /\ UNCHANGED <<conn, running, faults>>
     \/ /\ ~(i.page < 1)
        /\ ~conn[p].aborted
        /\ ~(i.page > total_pages /\ total_quests > 0)
        /\ loc' = [Called(t, 1) EXCEPT ![t].total_quests = total_quests]
        /\ Acquire(t)
        /\ Goto(t, "list_select")
        /\ UNCHANGED <<conn, replies, faults>>

\* Lines 114-158: SELECT the page, resolve each creator, send the list.
quest_list_select(t) ==
  LET p == Proc(t)
      i == inv[t]
      offset == (i.page - 1) * quests_per_page
      total_pages == TotalPages(loc[t].total_quests)
  IN
  /\ pc[t] = "list_select"
  /\ UNCHANGED <<dbvars, inv, hist, invocations>>
  /\ loc' = Called(t, 1)
  /\ Release(t)
  /\ Goto(t, "done")
  /\ \/ \E cause \in StatementErrors :
          /\ Raises(p, cause)
          /\ Send(t, ErrorReply("list_error", cause))
     \/ /\ ~conn[p].aborted
        /\ \E order \in OrderByCreatedAtDesc(VisibleQuests(p)) :
             LET rows == LimitOffset(order, quests_per_page, offset) IN
             \/ /\ rows = <<>>
                /\ Send(t, Reply("no_quests"))
                /\ UNCHANGED <<conn, faults>>
             \/ /\ rows # <<>>
                /\ Send(t, [Reply("listing") EXCEPT
                     !.page = i.page, !.pages = total_pages,
                     !.items = [k \in 1..Len(rows) |-> rows[k].id],
                     !.names = [k \in 1..Len(rows) |-> CreatorName(rows[k].creator_id)],
                     !.next = NextPageHint(i.page, total_pages)])
                /\ UNCHANGED <<conn, faults>>
             \/ /\ rows # <<>>
                /\ faults > 0
                /\ faults' = faults - 1
                /\ Send(t, ErrorReply("list_error", "HTTPException"))
                /\ UNCHANGED conn

\* ------------------------------------------------------------ quest_claim
QuestById(p, qid) == {q \in VisibleQuests(p) : q.id = qid}

\* The handler without its self-claim check.
IsCreatorNever(creator_id, user) == FALSE

IsCreator(creator_id, user) == creator_id = user

AlreadyClaimed(p, qid, user) == ClaimsOf(VisibleClaims(p), qid, user) # {}

\* Lines 170-184: SELECT the quest, reject a missing quest and a self-claim.
quest_claim(t) ==
  LET p == Proc(t)
      i == inv[t]
      found == QuestById(p, i.quest_id[2])
  IN
  /\ pc[t] = "begin" /\ i.cmd = "claim" /\ running[p] = NoTask
  /\ UNCHANGED <<dbvars, inv, hist, invocations>>
  /\ \/ /\ \E cause \in StatementErrors :
             /\ Raises(p, cause)
             /\ Send(t, ErrorReply("claim_error", cause))
        /\ Goto(t, "claim_except")
        /\ loc' = Called(t, 1)
        /\ UNCHANGED running
     \/ /\ ~conn[p].aborted
        /\ ~WellFormedId(i.quest_id)
        /\ conn' = [conn EXCEPT ![p].aborted = TRUE]
        /\ Send(t, ErrorReply("claim_error", "DataError"))
        /\ Goto(t, "claim_except")
        /\ loc' = Called(t, 1)
        /\ UNCHANGED <<running, faults>>
     \/ /\ ~conn[p].aborted
        /\ WellFormedId(i.quest_id)
        /\ found = {}
        /\ Send(t, Reply("not_found"))
        /\ Goto(t, "done")
        /\ loc' = Called(t, 1)
        /\ UNCHANGED <<conn, running, faults>>
     \/ /\ ~conn[p].aborted
        /\ WellFormedId(i.quest_id)
        /\ \E q \in found :
             \/ /\ IsCreator(q.creator_id, i.user)
                /\ Send(t, [Reply("self_claim") EXCEPT !.id = q.id])
                /\ Goto(t, "done")
                /\ loc' = [Called(t, 1) EXCEPT ![t].quest_id = q.id,
                                               ![t].creator_id = q.creator_id]
                /\ UNCHANGED <<conn, running, faults>>
             \/ /\ ~IsCreator(q.creator_id, i.user)
                /\ loc' = [Called(t, 1) EXCEPT ![t].quest_id = q.id,
                                               ![t].creator_id = q.creator_id]
                /\ Acquire(t)
                /\ Goto(t, "claim_check")
                /\ UNCHANGED <<conn, replies, faults>>

\* Lines 186-191: SELECT the user's claim of the quest, reject a second claim.
quest_claim_check(t) ==
  LET p == Proc(t)
      i == inv[t]
  IN
  /\ pc[t] = "claim_check"
  /\ UNCHANGED <<dbvars, inv, hist, invocations>>
  /\ loc' = Called(t, 1)
  /\ \/ /\ \E cause \in StatementErrors :
             /\ Raises(p, cause)
             /\ Send(t, ErrorReply("claim_error", cause))
        /\ Goto(t, "claim_except")
        /\ Release(t)
     \/ /\ ~conn[p].aborted
        /\ AlreadyClaimed(p, loc[t].quest_id, i.user)
        /\ Send(t, [Reply("already_claimed") EXCEPT !.id = loc[t].quest_id])
        /\ Goto(t, "done")
        /\ Release(t)
        /\ UNCHANGED <<conn, faults>>
     \/ /\ ~conn[p].aborted
        /\ ~AlreadyClaimed(p, loc[t].quest_id, i.user)
        /\ Goto(t, "claim_insert")
        /\ UNCHANGED <<conn, running, replies, faults>>

\* Lines 193-198: INSERT INTO quest_claims.
quest_claim_insert(t) ==
  LET p == Proc(t)
      i == inv[t]
      qid == loc[t].quest_id
  IN
  /\ pc[t] = "claim_insert"
  /\ ~WaitsForLock(p, qid, i.user)
  /\ UNCHANGED <<quests, id_seq, clock, inv, hist, invocations>>
  /\ \/ /\ \E cause \in StatementErrors :
             /\ Raises(p, cause)
             /\ Send(t, ErrorReply("claim_error", cause))
        /\ Goto(t, "claim_except")
        /\ Release(t)
        /\ loc' = Called(t, 1)
        /\ UNCHANGED <<quest_claims, claim_seq>>
     \/ /\ ~conn[p].aborted
        /\ UniqueViolation(p, qid, i.user)
        /\ conn' = [conn EXCEPT ![p].aborted = TRUE]
        /\ Send(t, ErrorReply("claim_error", "UniqueViolation"))
        /\ Goto(t, "claim_except")
        /\ Release(t)
        /\ loc' = Called(t, 1)
        /\ UNCHANGED <<quest_claims, claim_seq, faults>>
     \/ /\ ~conn[p].aborted
        /\ ~UniqueViolation(p, qid, i.user)
        /\ InsertClaim(p, ClaimRow(claim_seq + 1, qid, i.user))
        /\ claim_seq' = claim_seq + 1
        /\ loc' = [Called(t, 1) EXCEPT ![t].claim_id = claim_seq + 1]
        /\ Goto(t, "claim_commit")
        /\ UNCHANGED <<running, replies, faults>>

\* Lines 199-204: conn.commit(), then the success message.
quest_claim_commit(t) ==
  LET p == Proc(t) IN
  /\ pc[t] = "claim_commit"
  /\ UNCHANGED <<inv, hist, invocations, id_seq, claim_seq, clock>>
  /\ loc' = Called(t, 1)
  /\ Release(t)
  /\ \/ /\ Commit(p)
        /\ Send(t, [Reply("claimed") EXCEPT !.id = loc[t].quest_id])
        /\ Goto(t, "done")
        /\ UNCHANGED faults
     \/ /\ CommitFails(p)
        /\ Send(t, ErrorReply("claim_error", "OperationalError"))
        /\ Goto(t, "claim_except")
        /\ UNCHANGED <<quests, quest_claims>>

\* Lines 208-210: resumed after the error message was sent: conn.rollback().
quest_claim_except(t) ==
  /\ pc[t] = "claim_except" /\ running[Proc(t)] = NoTask
  /\ Rollback(Proc(t))
  /\ loc' = Called(t, 1)
  /\ Goto(t, "done")
  /\ UNCHANGED <<dbvars, running, inv, replies, hist, faults, invocations>>

\* ---------------------------------------------------------- quest_suggest
ApiTokens == {"", "hf_token"}

\* Line 237: the prompt built from the theme.
Prompt(theme) ==
  <<"A", " ">> \o theme
    \o <<" ", "q", "u", "e", "s", "t", ":", " ", "I", "n", " ", "a", " ",
         "w", "o", "r", "l", "d", " ", "o", "f", " ">> \o theme
    \o <<",", " ", "a", " ", "h", "e", "r", "o", " ", "m", "u", "s", "t", " ">>

DefaultTitle ==
  <<"A", " ", "M", "y", "s", "t", "e", "r", "i", "o", "u", "s", " ", "Q", "u", "e", "s", "t">>

DefaultDescription ==
  <<"E", "m", "b", "a", "r", "k", " ", "o", "n", " ", "a", " ", "t", "h", "r", "i", "l",
    "l", "i", "n", "g", " ", "a", "d", "v", "e", "n", "t", "u", "r", "e", "!">>

Separator == <<".", " ">>
TitleLimit == 50
DescriptionLimit == 200

\* Python string operations on sequences of characters.
Least(S) == CHOOSE k \in S : \A j \in S : k <= j
Greatest(S) == CHOOSE k \in S : \A j \in S : k >= j

\* The positions at which old occurs in s.
Occurs(s, old) ==
  {k \in 1..(Len(s) - Len(old) + 1) : SubSeq(s, k, k + Len(old) - 1) = old}

\* s.replace(old, ""): every occurrence removed, leftmost first.
RECURSIVE Remove(_, _)
Remove(s, old) ==
  IF Occurs(s, old) = {} THEN s
  ELSE LET k == Least(Occurs(s, old)) IN
       SubSeq(s, 1, k - 1) \o Remove(SubSeq(s, k + Len(old), Len(s)), old)

\* s.strip()
Strip(s) ==
  LET inked == {k \in 1..Len(s) : s[k] # " "} IN
  IF inked = {} THEN <<>> ELSE SubSeq(s, Least(inked), Greatest(inked))

\* s.split(sep): never an empty list; empty pieces are kept.
RECURSIVE Split(_, _)
Split(s, sep) ==
  IF Occurs(s, sep) = {} THEN <<s>>
  ELSE LET k == Least(Occurs(s, sep)) IN
       <<SubSeq(s, 1, k - 1)>> \o Split(SubSeq(s, k + Len(sep), Len(s)), sep)

\* sep.join(parts)
RECURSIVE Join(_, _)
Join(parts, sep) ==
  IF parts = <<>> THEN <<>>
  ELSE IF Len(parts) = 1 THEN parts[1]
  ELSE parts[1] \o sep \o Join(Tail(parts), sep)

\* s.endswith(".")
EndsWithPeriod(s) == s # <<>> /\ s[Len(s)] = "."

\* s.rsplit(" ", 1)[0]
BeforeLastSpace(s) ==
  LET spaces == {k \in 1..Len(s) : s[k] = " "} IN
  IF spaces = {} THEN s ELSE SubSeq(s, 1, Greatest(spaces) - 1)

\* s[:n]
Cut(s, n) == SubSeq(s, 1, Min(Len(s), n))

\* Line 255.
Sentences(generated_text, prompt) == Split(Strip(Remove(generated_text, prompt)), Separator)

\* Lines 256 and 262.
SuggestedTitle(sentences) ==
  Cut(IF sentences # <<>> THEN sentences[1] ELSE DefaultTitle, TitleLimit)

\* Lines 257, 260-261 and 263.
SuggestedDescription(sentences) ==
  LET description == IF Len(sentences) > 1 THEN Join(Tail(sentences), Separator)
                     ELSE DefaultDescription
      cleaned == IF ~EndsWithPeriod(description)
                 THEN BeforeLastSpace(description) \o <<".">>
                 ELSE description
  IN Cut(cleaned, DescriptionLimit)

\* What the generation service may return: with or without the prompt in front,
\* up to n sentences, short or long, separated by ". ", with or without a last
\* period.
GoText == <<"G", "o">>
GemText == <<"F", "i", "n", "d", " ", "t", "h", "e", " ", "g", "e", "m">>

RECURSIVE Repeat(_, _)
Repeat(s, n) == IF n = 0 THEN <<>> ELSE s \o Repeat(s, n - 1)

LongText == Repeat(<<"g", "e", "m", " ">>, 30) \o GoText

SentenceTexts == {<<>>, GoText, GemText, LongText}
Endings == {<<>>, <<".">>, <<" ">>, <<"!">>}

GeneratedTexts(theme, n) ==
  { head \o Join(sentences, Separator) \o ending :
      head \in {<<>>, Prompt(theme)},
      sentences \in UNION {[1..k -> SentenceTexts] : k \in 0..n},
      ending \in Endings }

SuggestTexts == GeneratedTexts(Fantasy, MaxSentences)

\* One text of three sentences, for the specifications that are not about the text.
SampleTexts == {Join(<<GemText, GoText, GoText>>, Separator)}

\* The request sent again after it failed.
PostWithRetry(t, api_token) ==
  [loc EXCEPT ![t].posts = @ + 2, ![t].api_token = api_token]

\* Line 249: one request to the generation service.
Post(t, api_token) == [loc EXCEPT ![t].posts = @ + 1, ![t].api_token = api_token]

\* The handler ending with the conn.rollback() of the other handlers.
ConnectionRolledBack(p) == Rollback(p)

\* Lines 218-276 use neither cursor nor conn.
ConnectionUntouched(p) == UNCHANGED conn

\* Lines 222-276: read the token, one blocking POST, format and send.
quest_suggest(t, texts) ==
  LET p == Proc(t)
      i == inv[t]
  IN
  /\ pc[t] = "begin" /\ i.cmd = "suggest" /\ running[p] = NoTask
  /\ UNCHANGED <<dbvars, running, inv, hist, invocations>>
  /\ ConnectionUntouched(p)
  /\ Goto(t, "done")
  /\ \E api_token \in ApiTokens :
       \/ /\ api_token = ""
          /\ Send(t, Reply("no_token"))
          /\ UNCHANGED <<loc, faults>>
       \/ /\ api_token # ""
          /\ faults > 0
          /\ faults' = faults - 1
          /\ loc' = Post(t, api_token)
          /\ Send(t, ErrorReply("suggest_error", "RequestException"))
       \/ /\ api_token # ""
          /\ \E generated_text \in texts :
               LET sentences == Sentences(generated_text, Prompt(i.theme)) IN
               /\ loc' = [Post(t, api_token) EXCEPT ![t].generated_text = generated_text]
               /\ Send(t, [Reply("suggestion") EXCEPT
                    !.title = SuggestedTitle(sentences),
                    !.description = SuggestedDescription(sentences)])
          /\ UNCHANGED faults

\* ------------------------------------------------------------------- Next
Next ==
  \E t \in Tasks :
    \/ \E i \in InputsOf(Proc(t)) : Invoke(t, i, MaxQuests, MaxInvocations)
    \/ quest_create(t)
    \/ quest_create_commit(t)
    \/ quest_create_except(t)
    \/ quest_list(t)
    \/ quest_list_select(t)
    \/ quest_claim(t)
    \/ quest_claim_check(t)
    \/ quest_claim_insert(t)
    \/ quest_claim_commit(t)
    \/ quest_claim_except(t)
    \/ quest_suggest(t, SampleTexts)

Spec == Init /\ [][Next]_vars

\* The event loop resumes every handler that can go on.
Resume ==
  \E t \in Tasks :
    \/ quest_create(t) \/ quest_create_commit(t) \/ quest_create_except(t)
    \/ quest_list(t) \/ quest_list_select(t)
    \/ quest_claim(t) \/ quest_claim_check(t) \/ quest_claim_insert(t)
    \/ quest_claim_commit(t) \/ quest_claim_except(t)
    \/ quest_suggest(t, SampleTexts)

FairSpec == Spec /\ WF_vars(Resume)

\* One bot process serving create and list only, with enough quests for two pages
\* and a store that does not fail.
ListTasks == {"a", "b"}

InitList == Start(0)

ListModeInputs ==
  CreateInputs({"u1"}, {"Gem"}, {"Cave"}, {0, 1})
    \cup ListInputs({"u1"}, {0, 1, 2, 3})

NextList ==
  \E t \in ListTasks :
    \/ \E i \in ListModeInputs : Invoke(t, i, MaxListQuests, MaxListInvocations)
    \/ quest_create(t)
    \/ quest_create_commit(t)
    \/ quest_list(t)
    \/ quest_list_select(t)

SpecList == InitList /\ [][NextList]_vars

\* One handler of one bot process serving suggest, with every text the generation
\* service may return.
SuggestTasks == {"a"}

NextSuggest ==
  \E t \in SuggestTasks :
    \/ \E i \in SuggestInputs({"u1"}, {Fantasy}) :
         Invoke(t, i, MaxQuests, MaxSuggestInvocations)
    \/ quest_suggest(t, SuggestTexts)

SpecSuggest == Init /\ [][NextSuggest]_vars

\* One bot process serving create, with titles and descriptions that are empty or
\* not.
CreateModeInputs == CreateInputs({"u1"}, {"", "Gem"}, {"", "Cave"}, {0, 1})

NextCreate ==
  \E t \in ListTasks :
    \/ \E i \in CreateModeInputs : Invoke(t, i, MaxQuests, MaxCreateInvocations)
    \/ quest_create(t)
    \/ quest_create_commit(t)
    \/ quest_create_except(t)

SpecCreate == Init /\ [][NextCreate]_vars

\* ================================================================ claims
Replied(t) == replies[t] # <<>>
Answer(t) == replies[t][1]
Done(t) == pc[t] = "done"
StoreFailures == {"OperationalError", "InFailedSqlTransaction"}
PendingClaims == UNION {conn[p].claims : p \in Procs}

\* C1: of two claim invocations for the same quest and user, the user not being
\* the creator, exactly one replies with the success message and the other is told
\* the quest is already claimed; it is never given the generic failure for having
\* lost the race.
C1_ClaimExclusivity ==
  \A t1 \in Tasks : \A t2 \in Tasks \ {t1} :
    ( /\ inv[t1].cmd = "claim" /\ inv[t2].cmd = "claim"
      /\ inv[t1].quest_id = inv[t2].quest_id /\ inv[t1].user = inv[t2].user
      /\ Replied(t1) /\ Replied(t2)
      /\ Answer(t1).kind = "claimed" )
    => \/ Answer(t2).kind \in {"already_claimed", "not_found"}
       \/ Answer(t2).kind = "claim_error" /\ Answer(t2).cause \in StoreFailures

\* C2: the store never holds two Claim rows for one (questId, userId) pair.
C2_OneClaimPerPair ==
  \A c1 \in quest_claims : \A c2 \in quest_claims :
    (c1.quest_id = c2.quest_id /\ c1.user_id = c2.user_id) => c1 = c2

\* A second insert for a claimed pair was attempted from another process and the
\* pair is in the store.
C2_Witness ==
  \E t \in Tasks :
    /\ inv[t].cmd = "claim" /\ Replied(t)
    /\ Answer(t).cause = "UniqueViolation"
    /\ ClaimsOf(quest_claims, inv[t].quest_id[2], inv[t].user) # {}

\* C3: a claim invocation by the creator of an existing quest, whose quest lookup
\* executes, replies with the self-claim message and inserts no Claim; no Claim,
\* committed or not, names the creator of its quest.
C3_NoSelfClaimRows ==
  \A c \in quest_claims \cup PendingClaims : \A q \in AllQuests :
    q.id = c.quest_id => q.creator_id # c.user_id

C3_SelfClaimStep(t) ==
  ( /\ pc[t] = "begin" /\ inv[t].cmd = "claim" /\ pc'[t] # "begin"
    /\ \E q \in quests : inv[t].quest_id = <<"uuid", q.id>> /\ q.creator_id = inv[t].user
    /\ pc'[t] # "claim_except" )
  => /\ pc'[t] = "done"
     /\ Len(replies'[t]) = 1 /\ replies'[t][1].kind = "self_claim"
     /\ quest_claims' = quest_claims
     /\ conn' = conn

C3_SelfClaimRejected ==
  []C3_NoSelfClaimRows /\ [][\A t \in Tasks : C3_SelfClaimStep(t)]_vars

C3_Witness ==
  \E t \in Tasks :
    /\ Done(t) /\ inv[t].cmd = "claim" /\ Answer(t).kind = "self_claim"
    /\ \E q \in quests : inv[t].quest_id = <<"uuid", q.id>> /\ q.creator_id = inv[t].user

\* C4: a create invocation with points below 1 or above 1000 replies with the
\* points-range rejection, issues no store operation and leaves quests and claims
\* unchanged; every quest ever written has points in 1..1000.
C4_OutOfRange(t) == inv[t].cmd = "create" /\ (inv[t].points < 1 \/ inv[t].points > 1000)

C4_Rejected ==
  /\ \A q \in AllQuests : q.points >= 1 /\ q.points <= 1000
  /\ \A t \in Tasks :
       (C4_OutOfRange(t) /\ pc[t] # "begin")
       => /\ Done(t)
          /\ replies[t] = <<Reply("points_range")>>
          /\ loc[t].calls = 0

C4_PointsRange ==
  []C4_Rejected
  /\ [][\A t \in Tasks :
          (C4_OutOfRange(t) /\ pc[t] = "begin" /\ pc'[t] # "begin")
          => UNCHANGED <<dbvars, conn>>]_vars

C4_Witness ==
  \E t \in Tasks : \E u \in Tasks :
    /\ C4_OutOfRange(t) /\ inv[t].points > 1000 /\ Done(t)
    /\ C4_OutOfRange(u) /\ inv[u].points < 1 /\ Done(u)
    /\ quests # {}

\* C5: every successful create adds one quest under an identifier no other quest
\* has, and enumerating the pages of an unchanged store shows each quest exactly
\* once.
Occurrences(items, id) == Cardinality({k \in 1..Len(items) : items[k] = id})

\* A listing that was computed on the store as it is now (quests are only added).
Current(t) ==
  /\ Done(t) /\ inv[t].cmd = "list" /\ Answer(t).kind = "listing"
  /\ loc[t].total_quests = Cardinality(quests)

C5_CreatedListedOnce ==
  /\ \A t \in Tasks :
       (Done(t) /\ inv[t].cmd = "create" /\ Answer(t).kind = "created")
       => /\ Cardinality({q \in quests : q.id = Answer(t).id}) = 1
          /\ \A u \in Tasks \ {t} :
               (Done(u) /\ inv[u].cmd = "create" /\ Answer(u).kind = "created")
               => Answer(u).id # Answer(t).id
  /\ \A t \in Tasks :
       (Current(t) /\ Answer(t).pages = 1 /\ inv[t].page = 1)
       => \A q \in quests : Occurrences(Answer(t).items, q.id) = 1
  /\ \A t \in Tasks : \A u \in Tasks :
       ( /\ Current(t) /\ Current(u) /\ Answer(t).pages = 2 /\ Answer(u).pages = 2
         /\ inv[t].page = 1 /\ inv[u].page = 2 )
       => \A q \in quests :
            Occurrences(Answer(t).items, q.id) + Occurrences(Answer(u).items, q.id) = 1

\* C6: in every page a quest created later comes before a quest created earlier,
\* and quests with the same createdAt come in the order of their ids, in one
\* direction, the same in every enumeration.
RowOf(id) == CHOOSE q \in quests : q.id = id

Listing(t) == Done(t) /\ inv[t].cmd = "list" /\ Answer(t).kind = "listing"

NewestFirst(items) ==
  \A j \in 1..Len(items) : \A k \in 1..Len(items) :
    j < k => RowOf(items[j]).created_at >= RowOf(items[k]).created_at

TiesById(items, ascending) ==
  \A j \in 1..Len(items) : \A k \in 1..Len(items) :
    (j < k /\ RowOf(items[j]).created_at = RowOf(items[k]).created_at)
    => IF ascending THEN items[j] < items[k] ELSE items[j] > items[k]

C6_ListOrdering ==
  /\ \A t \in Tasks : Listing(t) => NewestFirst(Answer(t).items)
  /\ \E ascending \in BOOLEAN :
       \A t \in Tasks : Listing(t) => TiesById(Answer(t).items, ascending)

\* C7: an invocation delivered after a failed invocation has completed, and hit by
\* no store failure of its own, is not answered with the generic error.
C7_FailureIsolation ==
  \A t \in Tasks :
    (hist[t] /\ Replied(t)) => Answer(t).cause # "InFailedSqlTransaction"

\* C8: once a create or claim invocation has answered with the generic error, the
\* row it inserted (if it got that far) is not in the store and never gets there,
\* and its failing and rolling back remove and add nothing.
C8_NothingVisible ==
  \A t \in Tasks :
    Replied(t) =>
      /\ (inv[t].cmd = "create" /\ Answer(t).kind = "create_error")
         => \A q \in quests : q.id # loc[t].quest_id
      /\ (inv[t].cmd = "claim" /\ Answer(t).kind = "claim_error")
         => \A c \in quest_claims : c.id # loc[t].claim_id

C8_FailStep(t) ==
  \/ pc[t] # pc'[t] /\ pc'[t] \in {"create_except", "claim_except"}
  \/ pc[t] \in {"create_except", "claim_except"} /\ pc'[t] = "done"

C8_AtomicFailure ==
  []C8_NothingVisible
  /\ [][\A t \in Tasks :
          C8_FailStep(t) => (quests' = quests /\ quest_claims' = quest_claims)]_vars

\* A create failed at its commit, after its INSERT, and has rolled back; a claim
\* failed likewise.
C8_Witness ==
  \E t \in Tasks : \E u \in Tasks :
    /\ Done(t) /\ inv[t].cmd = "create" /\ Answer(t).kind = "create_error"
    /\ loc[t].quest_id # 0
    /\ Done(u) /\ inv[u].cmd = "claim" /\ Answer(u).kind = "claim_error"
    /\ quests # {}

\* C9: a claim invocation answers a quest id that is not in the store with the
\* not-found message, a self-claim with the self-claim message and a second claim
\* with the already-claimed message, whatever text the user supplies and however
\* the duplicate is detected; the generic error is left to store failures.
C9_DistinctReplies ==
  \A t \in Tasks :
    (inv[t].cmd = "claim" /\ Replied(t))
    => /\ Answer(t).kind = "claim_error" => Answer(t).cause \in StoreFailures
       /\ inv[t].quest_id[1] # "uuid"
            => (Answer(t).kind = "not_found" \/ Answer(t).cause \in StoreFailures)

\* C10: page < 1 is rejected without any store query; with no quest in the store
\* every page >= 1 gives the 'no quests' reply; a page beyond the last one, the
\* store holding quests, gives the out-of-range message naming
\* ceil(totalQuests / 5) pages and renders no quest.
CeilDiv5(n) == CHOOSE k \in 0..n : 5 * k >= n /\ 5 * (k - 1) < n

C10_Replies ==
  \A t \in Tasks :
    (inv[t].cmd = "list" /\ pc[t] # "begin")
    => /\ inv[t].page < 1
            => (Done(t) /\ replies[t] = <<Reply("page_invalid")>> /\ loc[t].calls = 0)
       /\ (inv[t].page >= 1 /\ Done(t) /\ Answer(t).kind # "list_error")
            => LET total == loc[t].total_quests IN
               /\ total = 0 => Answer(t).kind = "no_quests"
               /\ (total > 0 /\ inv[t].page > CeilDiv5(total))
                    => replies[t] = <<[Reply("page_out_of_range") EXCEPT
                                         !.page = inv[t].page, !.pages = CeilDiv5(total)]>>
               /\ Answer(t).kind = "page_out_of_range"
                    => (total > 0 /\ inv[t].page > CeilDiv5(total))

C10_CountStep(t) ==
  ( /\ pc[t] = "begin" /\ inv[t].cmd = "list" /\ pc'[t] # "begin"
    /\ inv[t].page >= 1
    /\ ~(Len(replies'[t]) = 1 /\ replies'[t][1].kind = "list_error") )
  => loc'[t].total_quests = Cardinality(quests)

C10_PageValidation ==
  []C10_Replies /\ [][\A t \in Tasks : C10_CountStep(t)]_vars

\* Page 3 was asked for with six quests in the store, and page 2 of an empty store.
C10_Witness ==
  \E t \in Tasks : \E u \in Tasks :
    /\ Done(t) /\ inv[t].cmd = "list" /\ Answer(t).kind = "page_out_of_range"
    /\ loc[t].total_quests = 6 /\ Answer(t).pages = 2 /\ inv[t].page = 3
    /\ Done(u) /\ inv[u].cmd = "list" /\ Answer(u).kind = "no_quests"
    /\ inv[u].page = 2

\* C11: every invocation of create, list, claim and suggest runs to completion and
\* has sent exactly one followup when it completes, on the success, validation,
\* business-rule and store/provider/identity-lookup failure paths alike; before
\* that it has sent none or, in an error path that still has to roll back, that
\* one; the handler only moves forward, so no store or provider call is executed
\* a second time.
Position(label) ==
  CASE label \in {"idle", "begin"} -> 1
    [] label \in {"create_commit", "list_select", "claim_check"} -> 2
    [] label = "claim_insert" -> 3
    [] label = "claim_commit" -> 4
    [] label \in {"create_except", "claim_except"} -> 5
    [] label = "done" -> 6

MaxCalls(cmd) ==
  CASE cmd = "create" -> 3 [] cmd = "list" -> 2 [] cmd = "claim" -> 5 [] OTHER -> 0

C11_OneReply ==
  \A t \in Tasks :
    /\ Len(replies[t]) <= 1
    /\ Done(t) => Len(replies[t]) = 1
    /\ pc[t] \in {"create_except", "claim_except"} => Len(replies[t]) = 1
    /\ Position(pc[t]) < 5 => replies[t] = <<>>
    /\ loc[t].calls <= MaxCalls(inv[t].cmd)
    /\ loc[t].posts <= (IF inv[t].cmd = "suggest" THEN 1 ELSE 0)

C11_Forward(t) ==
  pc'[t] # pc[t] =>
    /\ IF Quiet(t) THEN pc'[t] = "begin" ELSE Position(pc'[t]) > Position(pc[t])
    /\ loc'[t].calls + loc'[t].posts <= loc[t].calls + loc[t].posts + 1
    /\ (replies[t] # <<>> /\ ~Quiet(t)) => replies'[t] = replies[t]

C11_ExactlyOneReply ==
  /\ []C11_OneReply
  /\ [][\A t \in Tasks : C11_Forward(t)]_vars
  /\ \A t \in Tasks : (pc[t] = "begin") ~> Done(t)

\* A create has succeeded, another was rejected for its points, and a list failed
\* at the lookup of a creator's name; each has sent its one followup.
C11_Witness ==
  \E t \in Tasks : \E u \in Tasks : \E v \in Tasks :
    /\ Done(t) /\ replies[t] = <<[Reply("created") EXCEPT !.id = loc[t].quest_id]>>
    /\ Done(u) /\ replies[u] = <<Reply("points_range")>>
    /\ Done(v) /\ replies[v] = <<ErrorReply("list_error", "HTTPException")>>

\* C12: a suggest invocation issues no store operation (no statement, no commit,
\* no rollback) and leaves the persisted quests and claims and the connection as
\* they were, whether the credential is missing, the provider fails or a suggestion
\* is sent.
C12_NoStoreCall ==
  \A t \in Tasks : inv[t].cmd = "suggest" => loc[t].calls = 0

C12_SuggestStep(t) ==
  (pc[t] = "begin" /\ inv[t].cmd = "suggest" /\ pc'[t] # "begin")
  => /\ UNCHANGED <<dbvars, conn>>
     /\ loc'[t].calls = 0

C12_SuggestReadOnly ==
  []C12_NoStoreCall /\ [][\A t \in Tasks : C12_SuggestStep(t)]_vars

\* A suggest has answered while the store held a quest and the connection of its
\* process was in a failed transaction.
C12_Witness ==
  \E t \in Tasks :
    /\ Done(t) /\ inv[t].cmd = "suggest" /\ Answer(t).kind \in {"suggestion", "no_token"}
    /\ quests # {}
    /\ conn[Proc(t)].aborted

\* C13: a suggest invocation that finds no API credential answers with the
\* missing-credential apology and has sent no request to the generation service;
\* one whose request fails (service unreachable, non-success status) answers with
\* the apology after exactly one request; either way the handler returns and the
\* process is left as it was, free to serve the next invocation.
C13_Outcomes ==
  \A t \in Tasks :
    (Done(t) /\ inv[t].cmd = "suggest")
    => /\ Len(replies[t]) = 1
       /\ Answer(t).kind \in {"no_token", "suggest_error", "suggestion"}
       /\ loc[t].api_token = "" <=> Answer(t).kind = "no_token"
       /\ Answer(t).kind = "no_token" => loc[t].posts = 0
       /\ Answer(t).kind = "suggest_error" => loc[t].posts = 1

C13_SuggestStep(t) ==
  (pc[t] = "begin" /\ inv[t].cmd = "suggest" /\ pc'[t] # "begin")
  => /\ pc'[t] = "done"
     /\ UNCHANGED <<conn, running>>
     /\ \A u \in Tasks \ {t} : pc'[u] = pc[u] /\ replies'[u] = replies[u]

C13_SuggestErrors ==
  []C13_Outcomes /\ [][\A t \in Tasks : C13_SuggestStep(t)]_vars

\* One suggest found no credential and another one's request failed, in one
\* process, and every invocation delivered has completed.
C13_Witness ==
  \E t \in Tasks : \E u \in Tasks :
    /\ Done(t) /\ inv[t].cmd = "suggest" /\ Answer(t).kind = "no_token"
    /\ Done(u) /\ inv[u].cmd = "suggest" /\ Answer(u).kind = "suggest_error"
    /\ Proc(t) = Proc(u)
    /\ invocations = 3 /\ \A v \in Tasks : Quiet(v)

\* C14: the title of a suggestion is the first segment of the generated text
\* (prompt removed, trimmed) split on ". ", cut to at most 50 characters; the
\* description has at most 200 characters and ends in a period, and where segments
\* remain after the first it is made of them joined by ". ".
Suggested(t) == Done(t) /\ inv[t].cmd = "suggest" /\ Answer(t).kind = "suggestion"

Body(t) == Strip(Remove(loc[t].generated_text, Prompt(inv[t].theme)))

IsPrefix(s, whole) == Len(s) <= Len(whole) /\ s = SubSeq(whole, 1, Len(s))

C14_SuggestionFormat ==
  \A t \in Tasks :
    Suggested(t) =>
      LET segments == Split(Body(t), Separator)
          title == Answer(t).title
          description == Answer(t).description
      IN /\ Len(title) <= 50
         /\ IsPrefix(title, segments[1])
         /\ (Len(title) < 50 => title = segments[1])
         /\ Len(description) <= 200
         /\ description # <<>> /\ description[Len(description)] = "."
         /\ Len(segments) > 1 =>
              IsPrefix(SubSeq(description, 1, Len(description) - 1),
                       Join(Tail(segments), Separator))

\* C15: when the generated text is empty once the prompt is removed and it is
\* trimmed, the suggestion carries the placeholder title and the fallback
\* description; the error path is not taken.
C15_Fallback ==
  \A t \in Tasks :
    (Done(t) /\ inv[t].cmd = "suggest" /\ loc[t].posts = 1
       /\ Answer(t).kind # "suggest_error" /\ Body(t) = <<>>)
    => /\ Answer(t).kind = "suggestion"
       /\ Answer(t).title = DefaultTitle
       /\ Answer(t).description = DefaultDescription

\* C16: a create invocation with an empty title or an empty description is
\* rejected as invalid before any store operation and persists nothing; every
\* quest in the store has a title and a description that are not empty.
C16_EmptyText(t) ==
  inv[t].cmd = "create" /\ (inv[t].title = "" \/ inv[t].description = "")

C16_NonEmptyText ==
  /\ \A q \in quests : q.title # "" /\ q.description # ""
  /\ \A t \in Tasks :
       (C16_EmptyText(t) /\ pc[t] # "begin")
       => /\ Done(t)
          /\ Answer(t).kind \notin {"created", "create_error"}
          /\ loc[t].calls = 0

\* C17: in every step the persisted quests and the persisted claims of before are
\* still there, with every field as it was; a step of list leaves the store as it
\* is; no identifier ever names two rows.
C17_OneRowPerId ==
  /\ \A q1 \in quests : \A q2 \in quests : q1.id = q2.id => q1 = q2
  /\ \A c1 \in quest_claims : \A c2 \in quest_claims : c1.id = c2.id => c1 = c2

C17_ListStep(t) == inv[t].cmd = "list" /\ ~Quiet(t) /\ pc'[t] # pc[t]

C17_Step ==
  /\ quests \subseteq quests'
  /\ quest_claims \subseteq quest_claims'
  /\ \A t \in Tasks : C17_ListStep(t) => UNCHANGED dbvars

C17_Monotonic == []C17_OneRowPerId /\ [][C17_Step]_vars

\* A quest and a claim are in the store and a list has shown the quest.
C17_Witness ==
  \E t \in Tasks :
    /\ Listing(t) /\ Answer(t).items # <<>>
    /\ quests # {} /\ quest_claims # {}

\* C18: a listing of page p carries the next-page line exactly when p is not the
\* last page, and the page that line suggests is p + 1.
C18_NextPageGuidance ==
  \A t \in Tasks :
    Listing(t) =>
      /\ Answer(t).next # 0 <=> Answer(t).page < Answer(t).pages
      /\ Answer(t).next # 0 => Answer(t).next = Answer(t).page + 1

\* C19: a list invocation for page p >= 1 whose queries execute answers, N being
\* the number of quests in the store when it answers: 'no quests found' exactly
\* when N = 0; for p in 1..ceil(N/5) a listing of min(5, N - 5*(p-1)) quests under
\* the header 'Page p/ceil(N/5)'.
C19_Answered(t) ==
  /\ inv[t].cmd = "list" /\ inv[t].page >= 1
  /\ ~Quiet(t) /\ pc'[t] = "done"
  /\ replies'[t][1].kind # "list_error"

C19_ListStep(t) ==
  C19_Answered(t) =>
    LET N == Cardinality(quests)
        page == inv[t].page
        reply == replies'[t][1]
    IN /\ reply.kind = "no_quests" <=> N = 0
       /\ (N > 0 /\ page <= CeilDiv5(N))
            => /\ reply.kind = "listing"
               /\ Len(reply.items) = Min(5, N - 5 * (page - 1))
               /\ Len(reply.items) >= 1
               /\ reply.page = page /\ reply.pages = CeilDiv5(N)

C19_PageArithmetic == [][\A t \in Tasks : C19_ListStep(t)]_vars

\* C20: whenever a handler of a process can be resumed, the connection of the
\* process holds no uncommitted row; between an INSERT and its commit it holds the
\* row of the one handler that is running; so a commit publishes, and a failed
\* commit or a rollback discards, no row of another invocation.
C20_Own(t, p) ==
  /\ \A q \in conn[p].quests : inv[t].cmd = "create" /\ q.id = loc[t].quest_id
  /\ \A c \in conn[p].claims : inv[t].cmd = "claim" /\ c.id = loc[t].claim_id

C20_NoOpenWrite ==
  \A p \in Procs :
    IF running[p] = NoTask
    THEN conn[p].quests = {} /\ conn[p].claims = {}
    ELSE Proc(running[p]) = p /\ C20_Own(running[p], p)

C20_CommitStep(t) ==
  (pc[t] \in {"create_commit", "claim_commit"} /\ pc'[t] # pc[t])
  => /\ C20_Own(t, Proc(t))
     /\ quests' \ quests \subseteq conn[Proc(t)].quests
     /\ quest_claims' \ quest_claims \subseteq conn[Proc(t)].claims

C20_RollbackStep(t) ==
  (pc[t] \in {"create_except", "claim_except"} /\ pc'[t] = "done")
  => conn[Proc(t)].quests = {} /\ conn[Proc(t)].claims = {}

C20_NoForeignWrite ==
  /\ []C20_NoOpenWrite
  /\ [][\A t \in Tasks : C20_CommitStep(t) /\ C20_RollbackStep(t)]_vars

\* In one process a create has committed its quest and a claim has failed and
\* rolled back; the quest is in the store.
C20_Witness ==
  \E t \in Tasks : \E u \in Tasks :
    /\ Proc(t) = Proc(u)
    /\ Done(t) /\ Answer(t).kind = "created"
    /\ \E q \in quests : q.id = Answer(t).id
    /\ Done(u) /\ Answer(u).kind = "claim_error" /\ loc[u].calls >= 2

====
